---- MODULE Spec2Model ----
(***************************************************************************)
(* Model of PrimeNumber (main.go): the sieve, the two primality oracles    *)
(* and the producer / worker-pool / closer / consumer pipeline that looks  *)
(* for primes n = p^2 + 4q^2 with p, q prime.                              *)
(***************************************************************************)
EXTENDS Integers, Sequences, FiniteSets, Bags, TLC

\* ------------------------------------------------------------------ bounds
\* Largest -limit flag value a pipeline run is started with.
MaxSearchLimit == 5
\* Largest runtime.NumCPU() considered.
MaxWorkers == 2
\* Largest -k flag value considered.
MaxK == 1
\* Clock readings (time.Now().UnixNano()) range over 0..MaxClock.
MaxClock == 5
\* Direct calls: arguments range over -MaxNeg..MaxArg, limits over -MaxNeg..MaxLimit.
MaxNeg == 3
MaxArg == 30
MaxLimit == 30
\* Scaled-down width of Go's int (two's complement, IntBits bits).
IntBits == 16
\* Direct calls of power: small bases and moduli range up to MaxBase, exponents
\* over 0..MaxExp.
MaxBase == 4
MaxExp == 3

\* -------------------------------------------------------- program constants
\* flag.Int("k", 5, ...)
DefaultK == 5

\* Capacity of the results channel: make(chan Result, 100) in main.go, scaled
\* down so that the runs of the model fill the buffer and workers block on it.
ResultsCap == 2

\* ------------------------------------------------------------ Go arithmetic
MaxInt == 2 ^ (IntBits - 1) - 1

\* Two's-complement wrap-around of an int result.
Wrap(x) ==
    LET m == 2 ^ IntBits
        r == x % m
    IN  IF r > MaxInt THEN r - m ELSE r

Abs(x) == IF x < 0 THEN -x ELSE x

\* Go's % : truncated remainder, the sign follows the dividend (b # 0).
GoRem(a, b) == IF a >= 0 THEN a % Abs(b) ELSE -((-a) % Abs(b))

\* ------------------------------------------------------- sieveOfEratosthenes
\* for i := p*p; i <= limit; i += p { primesMarker[i] = true }
RECURSIVE sieveStrike(_, _, _, _)
sieveStrike(primesMarker, i, p, limit) ==
    IF i > limit THEN primesMarker
    ELSE sieveStrike([primesMarker EXCEPT ![i] = TRUE], i + p, p, limit)

\* for p := 2; p*p <= limit; p++ { if !primesMarker[p] { strike } }
RECURSIVE sieveMark(_, _, _)
sieveMark(primesMarker, p, limit) ==
    IF p * p > limit THEN primesMarker
    ELSE sieveMark(IF ~primesMarker[p]
                      THEN sieveStrike(primesMarker, p * p, p, limit)
                      ELSE primesMarker,
                   p + 1, limit)

\* for p := 2; p <= limit; p++ { if !primesMarker[p] { append } }
RECURSIVE sieveCollect(_, _, _)
sieveCollect(primesMarker, p, limit) ==
    IF p > limit THEN <<>>
    ELSE (IF ~primesMarker[p] THEN <<p>> ELSE <<>>)
         \o sieveCollect(primesMarker, p + 1, limit)

\* make([]bool, limit+1) panics for limit+1 < 0; primesMarker[0], primesMarker[1]
\* = true, true panics (index out of range) unless limit+1 >= 2.
sievePanics(limit) == limit + 1 < 0 \/ limit + 1 < 2

\* The outcome of sieveOfEratosthenes(limit): a panic, or the returned slice
\* (nil and the empty slice are both <<>>).
sieveOfEratosthenes(limit) ==
    IF sievePanics(limit)
    THEN [panicked |-> TRUE, list |-> <<>>]
    ELSE [panicked |-> FALSE,
          list |-> sieveCollect(
                      sieveMark([j \in 0..limit |-> j <= 1], 2, limit),
                      2, limit)]

\* ------------------------------------------------------------------ isPrime
\* for i := 5; i*i <= n; i = i + 6 { if n%i == 0 || n%(i+2) == 0 { return false } }
\* (the loops below are recursive functions: their arguments are values)
isPrimeLoop[n \in Int, i \in Int] ==
    IF Wrap(i * i) > n THEN TRUE
    ELSE IF GoRem(n, i) = 0 \/ GoRem(n, Wrap(i + 2)) = 0 THEN FALSE
    ELSE isPrimeLoop[n, Wrap(i + 6)]

\* isPrime without the n%3 test of line 98.
isPrimeNoThree(n) ==
    IF n <= 1 THEN FALSE
    ELSE IF n <= 3 THEN TRUE
    ELSE IF GoRem(n, 2) = 0 THEN FALSE
    ELSE isPrimeLoop[n, 5]

isPrime(n) ==
    IF n <= 1 THEN FALSE
    ELSE IF n <= 3 THEN TRUE
    ELSE IF GoRem(n, 2) = 0 \/ GoRem(n, 3) = 0 THEN FALSE
    ELSE isPrimeLoop[n, 5]

\* -------------------------------------------------------------------- power
\* for exp > 0 { if exp%2 == 1 { res = (res * base) % mod };
\*               base = (base * base) % mod; exp /= 2 }
powerLoop[res \in Int, base \in Int, exp \in Int, mod \in Int] ==
    IF exp <= 0 THEN res
    ELSE powerLoop[IF GoRem(exp, 2) = 1
                      THEN GoRem(Wrap(res * base), mod)
                      ELSE res,
                   GoRem(Wrap(base * base), mod),
                   exp \div 2,
                   mod]

\* res := 1; base %= mod; the loop; return res
power(base, exp, mod) == powerLoop[1, GoRem(base, mod), exp, mod]

\* ------------------------------------------------------- isPrimeMillerRabin
\* d := n - 1; s := 0; for d%2 == 0 { d /= 2; s++ }: the final d and s.
mrOddPart[d \in Int] == IF GoRem(d, 2) = 0 THEN mrOddPart[d \div 2] ELSE d

mrTwoExp[d \in Int] == IF GoRem(d, 2) = 0 THEN 1 + mrTwoExp[d \div 2] ELSE 0

\* for r := 1; r < s; r++ { x = power(x, 2, n); if x == n-1 { witness = false; break } }
\* The value of `witness` after the loop.
mrSquarings[x \in Int, r \in Int, s \in Int, n \in Int] ==
    IF r >= s THEN TRUE
    ELSE IF power(x, 2, n) = n - 1 THEN FALSE
    ELSE mrSquarings[power(x, 2, n), r + 1, s, n]

\* The base without its offset: the remainder alone.
mrBaseNoOffset(now, n) == GoRem(now, n - 3)

\* a := 2 + int(time.Now().UnixNano())%(n-3), for the clock reading `now`.
mrBase(now, n) == 2 + GoRem(now, n - 3)

\* A round that goes on for x == 1 only (no x == n-1 in line 168).
mrRoundPassesOnOneOnly(a, d, s, n) ==
    LET x == power(a, d, n)
    IN  IF x = 1 THEN TRUE
        ELSE ~mrSquarings[x, 1, s, n]

\* One round of the witness loop with base a: TRUE when the round does not
\* return false (the loop goes on).
mrRoundPasses(a, d, s, n) ==
    LET x == power(a, d, n)
    IN  IF x = 1 \/ x = n - 1 THEN TRUE
        ELSE ~mrSquarings[x, 1, s, n]

\* for i := 0; i < k; i++ { ... }; clock[i+1] is the clock reading of round i.
mrWitnessLoop[i \in Int, k \in Int, clock \in Seq(Int), d \in Int, s \in Int, n \in Int] ==
    IF i >= k THEN TRUE
    ELSE IF mrRoundPasses(mrBase(clock[i + 1], n), d, s, n)
         THEN mrWitnessLoop[i + 1, k, clock, d, s, n]
         ELSE FALSE

\* isPrimeMillerRabin without the n%2 test of line 136.
isPrimeMillerRabinNoEven(n, k, clock) ==
    IF n <= 1 \/ n = 4 THEN FALSE
    ELSE IF n <= 3 THEN TRUE
    ELSE mrWitnessLoop[0, k, clock, mrOddPart[n - 1], mrTwoExp[n - 1], n]

\* isPrimeMillerRabin(n, k) when the rounds read the clock values `clock`.
isPrimeMillerRabin(n, k, clock) ==
    IF n <= 1 \/ n = 4 THEN FALSE
    ELSE IF n <= 3 THEN TRUE
    ELSE IF GoRem(n, 2) = 0 THEN FALSE
    ELSE mrWitnessLoop[0, k, clock, mrOddPart[n - 1], mrTwoExp[n - 1], n]

\* The clock readings a call with k rounds can make.
ClockReadings(k) == [1..(IF k > 0 THEN k ELSE 0) -> 0..MaxClock]


\* ------------------------------------------------------------------- state
VARIABLES
    searchLimit,         \* -limit flag
    primeTestAlgorithm,  \* -primetest flag
    millerRabinK,        \* -k flag
    numWorkers,          \* runtime.NumCPU()
    mainPc,              \* position of main
    mainW,               \* loop variable w of main's worker-start loop
    primes,              \* the slice returned by the sieve
    jobs,                \* buffered channel of Job, capacity len(primes)
    jobsClosed,
    results,             \* buffered channel of Result, capacity ResultsCap
    resultsClosed,
    wg,                  \* sync.WaitGroup counter
    workerPc,            \* position of each worker goroutine
    workerRes,           \* the Result a worker is about to send
    prodPc,              \* position of the producer goroutine
    prodI, prodJ,        \* indices of the producer's two range loops
    closerPc,            \* position of the goroutine that closes results
    count,               \* main's counter of received results
    panicked,            \* a goroutine panicked (send on / close of a closed channel)
    sent,                \* history: bag of the Jobs sent on jobs
    evals,               \* history: bag of <<p, q, verdict>> evaluated by workers
    emitted,             \* history: bag of the Results sent on results
    reported,            \* history: bag of the Results received by main
    closes,              \* history: number of close(results) executed
    calls                \* history of direct calls of the pure functions

vars == <<searchLimit, primeTestAlgorithm, millerRabinK, numWorkers, mainPc, mainW,
          primes, jobs, jobsClosed, results, resultsClosed, wg, workerPc,
          workerRes, prodPc, prodI, prodJ, closerPc, count, panicked,
          sent, evals, emitted, reported, closes, calls>>

pipeVars == <<searchLimit, primeTestAlgorithm, millerRabinK, numWorkers, mainPc, mainW,
              primes, jobs, jobsClosed, results, resultsClosed, wg, workerPc,
              workerRes, prodPc, prodI, prodJ, closerPc, count, panicked,
              sent, evals, emitted, reported, closes>>

Workers == 1..MaxWorkers
NoResult == [p |-> 0, q |-> 0, n |-> 0]

Job(p, q) == [p |-> p, q |-> q]
Result(p, q, n) == [p |-> p, q |-> q, n |-> n]

\* State of main before its first statement, for the given flags and CPU count.
Start(limit, algo, k, cpus) ==
    /\ searchLimit = limit
    /\ primeTestAlgorithm = algo
    /\ millerRabinK = k
    /\ numWorkers = cpus
    /\ mainPc = "sieve"
    /\ mainW = 1
    /\ primes = <<>>
    /\ jobs = <<>>
    /\ jobsClosed = FALSE
    /\ results = <<>>
    /\ resultsClosed = FALSE
    /\ wg = 0
    /\ workerPc = [w \in Workers |-> "idle"]
    /\ workerRes = [w \in Workers |-> NoResult]
    /\ prodPc = "idle"
    /\ prodI = 1
    /\ prodJ = 1
    /\ closerPc = "idle"
    /\ count = 0
    /\ panicked = FALSE
    /\ sent = EmptyBag
    /\ evals = EmptyBag
    /\ emitted = EmptyBag
    /\ reported = EmptyBag
    /\ closes = 0

\* The flag values a run is started with: -k matters under "miller" only, and
\* a "trial" run is given its default. flag.String accepts any text for
\* -primetest ("other" stands for a value that is neither 'trial' nor
\* 'miller'), flag.Int any integer for -k and -limit.
Flags ==
    {<<"trial", DefaultK>>, <<"other", DefaultK>>}
        \cup {<<"miller", k>> : k \in -1..MaxK}

Init ==
    /\ \E limit \in -MaxNeg..MaxSearchLimit, f \in Flags, cpus \in 1..MaxWorkers :
          Start(limit, f[1], f[2], cpus)
    /\ calls = <<>>

\* ------------------------------------------------------ channels, WaitGroup
\* A range loop that ends as soon as the channel is empty, closed or not.
rangeEndsWhenEmpty(ch, closed) == ch = <<>>

\* A range loop that ends as soon as the channel is closed, drained or not.
rangeEndsWhenClosed(ch, closed) == closed

\* `for x := range ch` ends when ch is closed and drained.
rangeEnds(ch, closed) == ch = <<>> /\ closed

\* A Wait that does not wait.
wgWaitReturnsAtOnce(counter) == TRUE

\* wg.Wait() returns when the counter is zero.
wgWaitReturns(counter) == counter = 0

\* A worker that returns without wg.Done().
wgDoneMissing(counter) == counter

\* wg.Done()
wgDone(counter) == counter - 1

\* -------------------------------------------------------------------- main
\* primes := sieveOfEratosthenes(searchLimit); jobs, results := make(...)
MainSieve ==
    /\ mainPc = "sieve"
    /\ LET r == sieveOfEratosthenes(searchLimit)
       IN  IF r.panicked
           THEN /\ mainPc' = "panic"
                /\ panicked' = TRUE
                /\ primes' = primes
           ELSE /\ mainPc' = "workers"
                /\ panicked' = panicked
                /\ primes' = r.list
    /\ UNCHANGED <<mainW, searchLimit, primeTestAlgorithm, millerRabinK, numWorkers,
                   jobs, jobsClosed, results, resultsClosed, wg, workerPc,
                   workerRes, prodPc, prodI, prodJ, closerPc, count,
                   sent, evals, emitted, reported, closes, calls>>

\* for w := 1; w <= numWorkers; w++ { wg.Add(1); go worker(...) }
\* followed, once the loop is over, by the two go statements.
MainStartWorker ==
    /\ ~panicked
    /\ mainPc = "workers"
    /\ mainW <= numWorkers
    /\ wg' = wg + 1
    /\ workerPc' = [workerPc EXCEPT ![mainW] = "recv"]
    /\ mainW' = mainW + 1
    /\ UNCHANGED <<searchLimit, primeTestAlgorithm, millerRabinK, numWorkers,
                   mainPc, primes, jobs, jobsClosed, results, resultsClosed,
                   workerRes, prodPc, prodI, prodJ, closerPc, count, panicked,
                   sent, evals, emitted, reported, closes, calls>>

\* go func() { for ... { jobs <- Job{p, q} }; close(jobs) }()
MainStartProducer ==
    /\ ~panicked
    /\ mainPc = "workers"
    /\ mainW > numWorkers
    /\ mainPc' = "closer"
    /\ prodPc' = "loop"
    /\ UNCHANGED <<mainW, searchLimit, primeTestAlgorithm, millerRabinK, numWorkers,
                   primes, jobs, jobsClosed, results, resultsClosed, wg,
                   workerPc, workerRes, prodI, prodJ, closerPc, count,
                   panicked, sent, evals, emitted, reported, closes, calls>>

\* go func() { wg.Wait(); close(results) }()
MainStartCloser ==
    /\ ~panicked
    /\ mainPc = "closer"
    /\ mainPc' = "range"
    /\ closerPc' = "wait"
    /\ UNCHANGED <<mainW, searchLimit, primeTestAlgorithm, millerRabinK, numWorkers,
                   primes, jobs, jobsClosed, results, resultsClosed, wg,
                   workerPc, workerRes, prodPc, prodI, prodJ, count,
                   panicked, sent, evals, emitted, reported, closes, calls>>

\* for res := range results { count++; Printf(res) }: one iteration.
MainReceive ==
    /\ ~panicked
    /\ mainPc = "range"
    /\ results # <<>>
    /\ results' = Tail(results)
    /\ count' = count + 1
    /\ reported' = reported (+) SetToBag({Head(results)})
    /\ UNCHANGED <<mainW, searchLimit, primeTestAlgorithm, millerRabinK, numWorkers,
                   mainPc, primes, jobs, jobsClosed, resultsClosed, wg,
                   workerPc, workerRes, prodPc, prodI, prodJ, closerPc,
                   panicked, sent, evals, emitted, closes, calls>>

\* The range loop ends when results is closed and drained.
MainExit ==
    /\ ~panicked
    /\ mainPc = "range"
    /\ rangeEnds(results, resultsClosed)
    /\ mainPc' = "done"
    /\ UNCHANGED <<mainW, searchLimit, primeTestAlgorithm, millerRabinK, numWorkers,
                   primes, jobs, jobsClosed, results, resultsClosed, wg,
                   workerPc, workerRes, prodPc, prodI, prodJ, closerPc, count,
                   panicked, sent, evals, emitted, reported, closes, calls>>


\* ---------------------------------------------------------------- producer
\* An inner loop that restarts at the second prime (range primes[1:]).
prodAdvanceSkipFirst(i, j, len) == IF j < len THEN <<i, j + 1>> ELSE <<i + 1, 2>>

\* The two loops exchanged: q in the outer loop, p in the inner one.
prodAdvanceInnerFirst(i, j, len) ==
    IF i < len THEN <<i + 1, j>>
    ELSE IF j < len THEN <<1, j + 1>> ELSE <<len + 1, 1>>

\* The loop indices <<i, j>> after the body ran for <<i, j>>: the inner range
\* loop goes on, or ends and the outer one advances.
prodAdvance(i, j, len) == IF j < len THEN <<i, j + 1>> ELSE <<i + 1, 1>>

\* jobs <- Job{p: p, q: q} for the current (p, q), then the loops advance.
ProducerSend ==
    /\ ~panicked
    /\ prodPc = "loop"
    /\ prodI <= Len(primes)
    /\ jobsClosed \/ Len(jobs) < Len(primes)
    /\ IF jobsClosed
       THEN /\ panicked' = TRUE
            /\ UNCHANGED <<jobs, sent, prodI, prodJ>>
       ELSE /\ jobs' = Append(jobs, Job(primes[prodI], primes[prodJ]))
            /\ sent' = sent (+) SetToBag({Job(primes[prodI], primes[prodJ])})
            /\ prodI' = prodAdvance(prodI, prodJ, Len(primes))[1]
            /\ prodJ' = prodAdvance(prodI, prodJ, Len(primes))[2]
            /\ panicked' = panicked
    /\ UNCHANGED <<searchLimit, primeTestAlgorithm, millerRabinK, numWorkers,
                   mainPc, mainW, primes, jobsClosed, results, resultsClosed,
                   wg, workerPc, workerRes, prodPc, closerPc, count,
                   evals, emitted, reported, closes, calls>>

\* close(jobs), after the outer loop.
ProducerClose ==
    /\ ~panicked
    /\ prodPc = "loop"
    /\ prodI > Len(primes)
    /\ jobsClosed' = TRUE
    /\ prodPc' = "done"
    /\ UNCHANGED <<searchLimit, primeTestAlgorithm, millerRabinK, numWorkers,
                   mainPc, mainW, primes, jobs, results, resultsClosed, wg,
                   workerPc, workerRes, prodI, prodJ, closerPc, count,
                   panicked, sent, evals, emitted, reported, closes, calls>>

\* ------------------------------------------------------------------ worker
\* n := (p * p) + 4*(q*q)
candidate(p, q) == Wrap(Wrap(p * p) + Wrap(4 * Wrap(q * q)))

\* The largest candidate of a run: p = q = the -limit flag.
MaxCandidate == candidate(MaxSearchLimit, MaxSearchLimit)

\* The verdict of the selected oracle when the rounds read `clock`.
currentIsPrime(algo, n, k, clock) ==
    IF algo = "miller" THEN isPrimeMillerRabin(n, k, clock) ELSE isPrime(n)

\* The outcomes <<n, k, verdict>> of isPrimeMillerRabin(n, k) over the clock
\* readings the call can make, for the candidates and round counts of the runs.
millerRabinOutcomes ==
    UNION {{<<n, k, isPrimeMillerRabin(n, k, clock)>> :
               clock \in ClockReadings(k)} :
           <<n, k>> \in (0..MaxCandidate) \X (-1..MaxK)}

\* A worker that asks isPrime whatever the selector.
oracleVerdictsTrial(algo, n, k) == {isPrime(n)}

\* The verdicts the selected oracle can return for n.
oracleVerdicts(algo, n, k) ==
    IF algo = "miller"
    THEN {v \in BOOLEAN : <<n, k, v>> \in millerRabinOutcomes}
    ELSE {currentIsPrime(algo, n, k, <<>>)}

\* One iteration of `for job := range jobs` up to the send: receive a job,
\* compute n and ask the oracle.
WorkerReceive(w) ==
    /\ ~panicked
    /\ workerPc[w] = "recv"
    /\ jobs # <<>>
    /\ LET job == Head(jobs)
           n == candidate(job.p, job.q)
       IN  \E v \in oracleVerdicts(primeTestAlgorithm, n, millerRabinK) :
             /\ jobs' = Tail(jobs)
             /\ evals' = evals (+) SetToBag({<<job.p, job.q, v>>})
             /\ IF v
                THEN /\ workerPc' = [workerPc EXCEPT ![w] = "send"]
                     /\ workerRes' = [workerRes EXCEPT
                                        ![w] = Result(job.p, job.q, n)]
                ELSE UNCHANGED <<workerPc, workerRes>>
    /\ UNCHANGED <<searchLimit, primeTestAlgorithm, millerRabinK, numWorkers,
                   mainPc, mainW, primes, jobsClosed, results, resultsClosed,
                   wg, prodPc, prodI, prodJ, closerPc, count, panicked,
                   sent, emitted, reported, closes, calls>>

\* results <- Result{p, q, n}; a send on a closed channel panics.
WorkerSend(w) ==
    /\ ~panicked
    /\ workerPc[w] = "send"
    /\ resultsClosed \/ Len(results) < ResultsCap
    /\ IF resultsClosed
       THEN /\ panicked' = TRUE
            /\ UNCHANGED <<results, emitted, workerPc, workerRes>>
       ELSE /\ results' = Append(results, workerRes[w])
            /\ emitted' = emitted (+) SetToBag({workerRes[w]})
            /\ workerPc' = [workerPc EXCEPT ![w] = "recv"]
            /\ workerRes' = [workerRes EXCEPT ![w] = NoResult]
            /\ panicked' = panicked
    /\ UNCHANGED <<searchLimit, primeTestAlgorithm, millerRabinK, numWorkers,
                   mainPc, mainW, primes, jobs, jobsClosed, resultsClosed, wg,
                   prodPc, prodI, prodJ, closerPc, count,
                   sent, evals, reported, closes, calls>>

\* The range loop ends on a closed, drained jobs channel; defer wg.Done().
WorkerExit(w) ==
    /\ ~panicked
    /\ workerPc[w] = "recv"
    /\ rangeEnds(jobs, jobsClosed)
    /\ workerPc' = [workerPc EXCEPT ![w] = "done"]
    /\ wg' = wgDone(wg)
    /\ UNCHANGED <<searchLimit, primeTestAlgorithm, millerRabinK, numWorkers,
                   mainPc, mainW, primes, jobs, jobsClosed, results,
                   resultsClosed, workerRes, prodPc, prodI, prodJ, closerPc,
                   count, panicked, sent, evals, emitted, reported, closes,
                   calls>>

\* ------------------------------------------------------------------ closer
\* wg.Wait() returns once the counter is zero.
CloserWait ==
    /\ ~panicked
    /\ closerPc = "wait"
    /\ wgWaitReturns(wg)
    /\ closerPc' = "close"
    /\ UNCHANGED <<searchLimit, primeTestAlgorithm, millerRabinK, numWorkers,
                   mainPc, mainW, primes, jobs, jobsClosed, results,
                   resultsClosed, wg, workerPc, workerRes, prodPc, prodI,
                   prodJ, count, panicked, sent, evals, emitted, reported,
                   closes, calls>>

\* close(results); closing a closed channel panics.
CloserClose ==
    /\ ~panicked
    /\ closerPc = "close"
    /\ closerPc' = "done"
    /\ closes' = closes + 1
    /\ IF resultsClosed
       THEN panicked' = TRUE /\ resultsClosed' = resultsClosed
       ELSE panicked' = panicked /\ resultsClosed' = TRUE
    /\ UNCHANGED <<searchLimit, primeTestAlgorithm, millerRabinK, numWorkers,
                   mainPc, mainW, primes, jobs, jobsClosed, results, wg,
                   workerPc, workerRes, prodPc, prodI, prodJ, count,
                   sent, evals, emitted, reported, calls>>

\* ----------------------------------------------------------- specification
Producer == ProducerSend \/ ProducerClose
Worker(w) == WorkerReceive(w) \/ WorkerSend(w) \/ WorkerExit(w)
Closer == CloserWait \/ CloserClose
Main == MainSieve \/ MainStartWorker \/ MainStartProducer \/ MainStartCloser
           \/ MainReceive \/ MainExit

Next ==
    \/ MainSieve
    \/ MainStartWorker
    \/ MainStartProducer
    \/ MainStartCloser
    \/ MainReceive
    \/ MainExit
    \/ ProducerSend
    \/ ProducerClose
    \/ \E w \in Workers : WorkerReceive(w)
    \/ \E w \in Workers : WorkerSend(w)
    \/ \E w \in Workers : WorkerExit(w)
    \/ CloserWait
    \/ CloserClose

Spec == Init /\ [][Next]_vars

\* The Go scheduler runs every goroutine that can take a step.
Fairness ==
    /\ WF_vars(Main)
    /\ WF_vars(Producer)
    /\ WF_vars(Closer)
    /\ \A w \in Workers : WF_vars(Worker(w))

FairSpec == Init /\ [][Next]_vars /\ Fairness


\* ------------------------------------------------- direct calls (unit level)
\* The pure functions called directly, as main_test.go calls them, with the
\* outcome of each call recorded in `calls`. A run makes two calls: the claims
\* about these functions speak of one call or compare two.
Call(fn, arg, k, verdict, list, crashed) ==
    [fn |-> fn, arg |-> arg, k |-> k, verdict |-> verdict, list |-> list,
     panicked |-> crashed]

CallSieve ==
    /\ Len(calls) < 2
    /\ \E limit \in -MaxNeg..MaxLimit :
         LET r == sieveOfEratosthenes(limit)
         IN  calls' = Append(calls, Call("sieveOfEratosthenes", limit, 0,
                                         FALSE, r.list, r.panicked))
    /\ UNCHANGED pipeVars

CallIsPrime ==
    /\ Len(calls) < 2
    /\ \E n \in -MaxNeg..MaxArg :
         calls' = Append(calls, Call("isPrime", n, 0, isPrime(n), <<>>, FALSE))
    /\ UNCHANGED pipeVars

CallMillerRabin ==
    /\ Len(calls) < 2
    /\ \E n \in -MaxNeg..MaxArg, k \in -1..MaxK :
         \E clock \in ClockReadings(k) :
            calls' = Append(calls, Call("isPrimeMillerRabin", n, k,
                                        isPrimeMillerRabin(n, k, clock),
                                        <<>>, FALSE))
    /\ UNCHANGED pipeVars

\* The smallest power of two whose square no longer fits an int: with it as
\* base (and a modulus above it) base * base of power wraps around.
PowerBase == 2 ^ ((IntBits + 1) \div 2)

PowerCall(base, exp, mod, res) ==
    [fn |-> "power", base |-> base, exp |-> exp, mod |-> mod, res |-> res]

CallPower ==
    /\ Len(calls) < 2
    /\ \E base \in (0..MaxBase) \cup {PowerBase}, exp \in 0..MaxExp,
          mod \in (2..MaxBase) \cup {PowerBase + 1} :
         calls' = Append(calls, PowerCall(base, exp, mod, power(base, exp, mod)))
    /\ UNCHANGED pipeVars

CallInit ==
    /\ Start(1, "trial", DefaultK, 1)
    /\ calls = <<>>

CallNext == CallSieve \/ CallIsPrime \/ CallMillerRabin \/ CallPower

CallSpec == CallInit /\ [][CallNext]_vars


\* =================================================================== claims
\* Mathematical notions the claims are stated with.
IsPrimeNumber(n) == n > 1 /\ \A d \in 2..(n - 1) : n % d # 0
Form(p, q) == p * p + 4 * q * q
Range(seq) == {seq[i] : i \in 1..Len(seq)}
StrictlyAscending(seq) == \A i \in 1..(Len(seq) - 1) : seq[i] < seq[i + 1]
Pairs == {Job(primes[i], primes[j]) : i, j \in 1..Len(primes)}
EvalCount(job) == CopiesIn(<<job.p, job.q, TRUE>>, evals)
                  + CopiesIn(<<job.p, job.q, FALSE>>, evals)
\* The Results of the pairs that got a positive verdict from a worker.
Qualifying == {Result(e[1], e[2], Form(e[1], e[2])) :
                  e \in {x \in BagToSet(evals) : x[3]}}
Unreported == {r \in Qualifying : ~BagIn(r, reported)}
GoroutinePanic == panicked /\ mainPc # "panic"
Completed ==
    /\ mainPc = "done"
    /\ prodPc = "done"
    /\ jobsClosed
    /\ resultsClosed
    /\ \A w \in 1..numWorkers : workerPc[w] = "done"

\* The sequential search of main_test.go: primes by isPrime, then the nested
\* loop over (p, q) that tests p^2 + 4q^2 with isPrime.
findSpecialPrimes(limit) ==
    LET ps == {i \in 2..limit : isPrime(i)}
    IN  {Result(p, q, (p * p) + 4 * (q * q)) :
            <<p, q>> \in {pq \in ps \X ps :
                            isPrime((pq[1] * pq[1]) + 4 * (pq[2] * pq[2]))}}

\* C1: every pair of the prime list is sent on jobs exactly once and evaluated
\* by a worker exactly once: never twice, and none is missing when main ends.
C1_EveryPairOnce ==
    /\ \A job \in BagToSet(sent) : job \in Pairs /\ CopiesIn(job, sent) = 1
    /\ \A e \in BagToSet(evals) :
          /\ BagIn(Job(e[1], e[2]), sent)
          /\ EvalCount(Job(e[1], e[2])) = 1
    /\ mainPc = "done" =>
          \A job \in Pairs : CopiesIn(job, sent) = 1 /\ EvalCount(job) = 1

C1_Witness ==
    /\ mainPc = "done"
    /\ Len(primes) = 3
    /\ numWorkers = 2
    /\ BagCardinality(evals) = 9

\* C2: every pair with a positive verdict yields exactly one Result (p, q,
\* p^2+4q^2) that main receives before its loop ends: never more than one
\* copy, every one of them eventually, and the final count is their number.
C2_QualifyingPairsReported ==
    /\ [](/\ \A r \in BagToSet(reported) :
                r \in Qualifying /\ CopiesIn(r, reported) = 1
          /\ count = BagCardinality(reported)
          /\ mainPc = "done" =>
                Unreported = {} /\ count = Cardinality(Qualifying))
    /\ (Unreported # {}) ~> (Unreported = {})

C2_Witness ==
    /\ mainPc = "done"
    /\ CopiesIn(Result(3, 5, 109), reported) = 1
    /\ count = 3

\* C3 (as claimed): every Result put on the results channel has p and q in
\* the prime list, n = p^2+4q^2 and n prime, under either strategy (stated
\* for k >= 1: at least one Miller-Rabin round is run).
C3_ResultsArePrime ==
    millerRabinK >= 1 =>
        \A r \in BagToSet(emitted) :
            /\ r.p \in Range(primes)
            /\ r.q \in Range(primes)
            /\ r.n = Form(r.p, r.q)
            /\ IsPrimeNumber(r.n)

\* C4: results is closed at most once and only when the WaitGroup counter is
\* zero and every worker has returned; no goroutine panics on a closed channel.
C4_CloseAfterWorkers ==
    /\ closes <= 1
    /\ (closerPc \in {"close", "done"} \/ resultsClosed) =>
          /\ wg = 0
          /\ \A w \in 1..numWorkers : workerPc[w] = "done"
    /\ ~GoroutinePanic

C4_Witness ==
    /\ resultsClosed
    /\ closes = 1
    /\ numWorkers = 2
    /\ BagCardinality(emitted) >= 3

\* C5: once the sieve has returned a prime list, the pipeline runs to
\* completion: jobs closed, every worker returned, results closed, main's loop
\* exited.
C5_Completion == (mainPc = "workers") ~> Completed

C5_Witness ==
    /\ Completed
    /\ Len(primes) = 3
    /\ numWorkers = 2
    /\ count > 0

\* C6 (as claimed): whatever the worker count, the Results main has received
\* when it ends are those of the sequential nested loop (stated for k >= 1).
C6_SameAsSequential ==
    (mainPc = "done" /\ millerRabinK >= 1) =>
        BagToSet(reported) = findSpecialPrimes(searchLimit)

\* C7 (as claimed): sieveOfEratosthenes(L) returns the primes <= L, strictly
\* ascending, and the empty list for L < 2.
C7_SieveExact ==
    \A i \in 1..Len(calls) :
        calls[i].fn = "sieveOfEratosthenes" =>
            /\ ~calls[i].panicked
            /\ StrictlyAscending(calls[i].list)
            /\ Range(calls[i].list)
                 = {n \in 2..calls[i].arg : IsPrimeNumber(n)}

C9_OraclesAgree ==
    \A i, j \in 1..Len(calls) :
        (/\ calls[i].fn = "isPrime"
         /\ calls[j].fn = "isPrimeMillerRabin"
         /\ calls[j].k >= 1
         /\ calls[i].arg = calls[j].arg) =>
            calls[i].verdict = calls[j].verdict

\* C10 (as claimed): two calls of the oracle with the same n and the same k
\* return the same verdict.
C10_OracleDeterministic ==
    \A i, j \in 1..Len(calls) :
        (/\ calls[i].fn = calls[j].fn
         /\ calls[i].fn \in {"isPrime", "isPrimeMillerRabin"}
         /\ calls[i].arg = calls[j].arg
         /\ calls[i].k = calls[j].k) =>
            calls[i].verdict = calls[j].verdict

\* C11 (as claimed): the sieve does not fail for a limit L <= 1, zero and
\* negative L included: main gets the empty list from it and the run ends
\* with zero results, never with an error.
C11_SieveNeverFails ==
    (searchLimit <= 1 /\ mainPc # "sieve") =>
        /\ mainPc # "panic"
        /\ ~panicked
        /\ primes = <<>>
        /\ count = 0

\* C12 (as claimed): with a -primetest value that is neither 'trial' nor
\* 'miller' the run fails before a worker or the producer is started and
\* before a pair is evaluated.
C12_UnknownSelectorFailsFast ==
    primeTestAlgorithm \notin {"trial", "miller"} =>
        /\ \A w \in Workers : workerPc[w] = "idle"
        /\ prodPc = "idle"
        /\ evals = EmptyBag

\* base^exp mod m, every product reduced before it can grow.
RECURSIVE ModPow(_, _, _)
ModPow(b, e, m) ==
    IF e = 0 THEN 1 % m ELSE ((b % m) * ModPow(b, e - 1, m)) % m

\* C13 (as claimed): for every base, exp >= 0 and mod >= 2 that an int holds,
\* power(base, exp, mod) is base^exp mod mod: no product wraps around.
C13_PowerExact ==
    \A i \in 1..Len(calls) :
        calls[i].fn = "power" =>
            calls[i].res = ModPow(calls[i].base, calls[i].exp, calls[i].mod)

\* C14: the two oracles treat the edge cases alike, for every k and every
\* clock reading: FALSE for n <= 1, TRUE for 2 and 3, FALSE for every even
\* n > 2.
C14_EdgeCasesAgree ==
    \A i \in 1..Len(calls) :
        calls[i].fn \in {"isPrime", "isPrimeMillerRabin"} =>
            LET n == calls[i].arg
                v == calls[i].verdict
            IN  /\ n <= 1 => ~v
                /\ n \in {2, 3} => v
                /\ (n > 2 /\ n % 2 = 0) => ~v

C14_Witness ==
    /\ Len(calls) = 2
    /\ calls[1] = Call("isPrimeMillerRabin", 6, 0, FALSE, <<>>, FALSE)
    /\ calls[2] = Call("isPrime", 6, 0, FALSE, <<>>, FALSE)

\* (p, q) comes before (p', q') in the order of the two nested loops.
LexBefore(a, b) == a.p < b.p \/ (a.p = b.p /\ a.q < b.q)

\* C15: the producer sends the jobs in lexicographic order of (p, q), p in the
\* outer loop, along the ascending prime list; it closes jobs once, after the
\* job of the last pair, and sends nothing after the close.
C15_ProducerOrder ==
    /\ [](/\ StrictlyAscending(primes)
          /\ jobsClosed =>
                /\ prodPc = "done"
                /\ \A job \in Pairs : CopiesIn(job, sent) = 1)
    /\ [][/\ \A new \in BagToSet(sent' (-) sent) :
                /\ BagCardinality(sent' (-) sent) = 1
                /\ \A old \in BagToSet(sent) : LexBefore(old, new)
          /\ jobsClosed => (jobsClosed' /\ sent' = sent /\ prodPc' = "done")
          /\ (~jobsClosed /\ jobsClosed') =>
                (prodPc = "loop" /\ prodPc' = "done")]_vars

C15_Witness ==
    /\ jobsClosed
    /\ Len(primes) = 3
    /\ CopiesIn(Job(5, 5), sent) = 1
    /\ BagCardinality(sent) = 9

\* C16: a worker returns, with wg.Done(), only when jobs is closed and empty;
\* once every worker has returned no job is left in the channel.
C16_WorkerExitsOnDrain ==
    /\ []((\A w \in 1..numWorkers : workerPc[w] = "done") =>
             (jobsClosed /\ jobs = <<>>))
    /\ [][\A w \in Workers :
             (workerPc[w] # "done" /\ workerPc'[w] = "done") =>
                /\ jobsClosed
                /\ jobs = <<>>
                /\ workerPc[w] = "recv"
                /\ wg' = wg - 1]_vars

C16_Witness ==
    /\ \A w \in 1..numWorkers : workerPc[w] = "done"
    /\ numWorkers = 2
    /\ wg = 0
    /\ Len(primes) = 3
    /\ BagCardinality(evals) = 9

\* C17: isPrimeMillerRabin has no false negative: for a prime n it returns
\* TRUE for every k and every clock reading, every base a in [2, n-2] passes
\* its round, and so an n accepted by isPrime is accepted by it too.
C17_NoFalseNegatives ==
    \A i \in 1..Len(calls) :
        (calls[i].fn = "isPrimeMillerRabin" /\ IsPrimeNumber(calls[i].arg)) =>
            LET n == calls[i].arg
            IN  /\ calls[i].verdict
                /\ n >= 5 =>
                      \A a \in 2..(n - 2) :
                          mrRoundPasses(a, mrOddPart[n - 1], mrTwoExp[n - 1], n)
                /\ \A j \in 1..Len(calls) :
                      (calls[j].fn = "isPrime" /\ calls[j].arg = n) =>
                          (calls[j].verdict => calls[i].verdict)

C17_Witness ==
    /\ Len(calls) = 2
    /\ calls[1] = Call("isPrime", 29, 0, TRUE, <<>>, FALSE)
    /\ calls[2] = Call("isPrimeMillerRabin", 29, 1, TRUE, <<>>, FALSE)

\* A call with this n passes the three early returns and reaches the witness
\* loop: with no round to run it returns TRUE there.
ReachesWitnessLoop(n) == n > 3 /\ isPrimeMillerRabin(n, 0, <<>>)

\* C18: when isPrimeMillerRabin reaches its witness loop n is odd and >= 5, so
\* n-3 >= 2, and for every clock reading >= 0 the base 2 + clock % (n-3) lies
\* in [2, n-2].
C18_BaseInRange ==
    \A i \in 1..Len(calls) :
        (calls[i].fn = "isPrimeMillerRabin"
            /\ ReachesWitnessLoop(calls[i].arg)) =>
            LET n == calls[i].arg
            IN  /\ n % 2 = 1
                /\ n >= 5
                /\ n - 3 >= 2
                /\ \A now \in 0..(2 * MaxArg) :
                      mrBase(now, n) \in 2..(n - 2)

C18_Witness ==
    /\ Len(calls) = 2
    /\ calls[1] = Call("isPrimeMillerRabin", 5, 1, TRUE, <<>>, FALSE)
    /\ calls[2] = Call("isPrimeMillerRabin", 9, 1, FALSE, <<>>, FALSE)

\* C19: with -primetest=miller and k <= 0 no round is run: every pair whose
\* n is odd and >= 5 gets a positive verdict, prime or not, and is reported.
C19_ZeroRoundsAcceptOdd ==
    (primeTestAlgorithm = "miller" /\ millerRabinK <= 0) =>
        /\ \A e \in BagToSet(evals) :
              (Form(e[1], e[2]) >= 5 /\ Form(e[1], e[2]) % 2 = 1) => e[3]
        /\ mainPc = "done" =>
              \A job \in Pairs :
                  (Form(job.p, job.q) >= 5 /\ Form(job.p, job.q) % 2 = 1) =>
                      CopiesIn(Result(job.p, job.q, Form(job.p, job.q)),
                               reported) = 1

C19_Witness ==
    /\ mainPc = "done"
    /\ primeTestAlgorithm = "miller"
    /\ millerRabinK = 0
    /\ CopiesIn(Result(5, 5, 125), reported) = 1
    /\ count = 6

====
